---- MODULE Spec2Model ----
(***************************************************************************)
(* Model of the two components of the churn data-preparation pipeline:     *)
(*   - the Acquirer, KaggleDatasetIngestor                                 *)
(*     (src/customer_churn_prediction/data/make_dataset.py)                *)
(*   - the Validator, main of src/scripts/data_checks.py                   *)
(* The Acquirer is checked under Spec, the Validator under SpecValidator.  *)
(*                                                                         *)
(* The Acquirer runs in one process; a download call is a sequence of      *)
(* steps (the fetch, the build of the manifest, the write of the temporary *)
(* file, the replace) and the process may be interrupted between two of    *)
(* them.  The remote fetch writes data files only: it does not write the   *)
(* manifest path or the temporary path.  The manifest file is absent, not  *)
(* parseable as JSON, or a manifest written by download.                   *)
(***************************************************************************)
EXTENDS Integers, Sequences, FiniteSets, TLC

VARIABLES
    (* ---- Acquirer: the filesystem ---- *)
    dataFiles,      \* content of every data path under out_dir, 0 = no file
    manifestFile,   \* the file at out_dir/manifest.json
    tmpFile,        \* the file at out_dir/manifest.json.tmp
    credFile,       \* the file at .kaggle_runtime/kaggle.json
    environ,        \* KAGGLE_USERNAME and KAGGLE_API_KEY are both set in the environment
    (* ---- Acquirer: the running download call ---- *)
    pc,             \* position of the download call in progress, "idle" if none
    cur,            \* the download call in progress
    manifest,       \* the manifest dict held in memory by download
    clock,          \* wall clock, in seconds
    calls,          \* number of download calls started
    changed,        \* the directory was changed from outside since the last call ended
    (* ---- Acquirer: what the calls returned ---- *)
    last,           \* the download call that ended last
    prev,           \* the download call before it, when the last call repeated it
    (* ---- Validator ---- *)
    listing,        \* names of data/raw in the order the directory listing returns them
    csv,            \* content of the CSV files of data/raw
    vpc,            \* position of main
    csvPath,        \* <<path>> returned by _find_first_csv_path
    raised,         \* <<exception>> raised inside main's try block
    logged,         \* the handler of main that logged the failure, "none" if none
    exitCode        \* the process exit code, -1 while main runs

acqVars == <<dataFiles, manifestFile, tmpFile, credFile, environ, pc, cur, manifest, clock,
             calls, changed, last, prev>>
valVars == <<listing, csv, vpc, csvPath, raised, logged, exitCode>>
vars == <<acqVars, valVars>>

(***************************************************************************)
(* Bounds of the model.                                                    *)
(***************************************************************************)
MaxClock == 1
MaxCalls == 2

(***************************************************************************)
(* Paths under out_dir.                                                    *)
(***************************************************************************)
Path(d, n) == [dir |-> d, name |-> n]

ManifestName == "manifest.json"

ManifestPath == Path("", ManifestName)

TmpPath == Path("", "manifest.json.tmp")

DataPaths == {Path("", "a.csv"), Path("sub", ManifestName)}

RglobOrder ==
    <<ManifestPath, TmpPath, Path("", "a.csv"), Path("sub", ManifestName)>>

Slugs == {"ds1", "ds2"}

NoFile == [kind |-> "absent", text |-> <<>>]

Garbage == [kind |-> "garbage", text |-> <<>>]


(***************************************************************************)
(* Files and their records.  dataFiles[p] is 1 when the data file p exists  *)
(* and 0 when it does not; the bytes of a file are not modelled, and its   *)
(* size and digest are functions of that number.  The content of the       *)
(* temporary manifest file is a JSON text, whose size and digest are        *)
(* abstracted to the numbers -1 (complete text) and -2 (partial text).     *)
(***************************************************************************)
PathExists(p) ==
    IF p = ManifestPath THEN manifestFile.kind # "absent"
    ELSE IF p = TmpPath THEN tmpFile.kind # "absent"
    ELSE dataFiles[p] # 0

ContentOf(p) ==
    IF p = TmpPath THEN (IF tmpFile.kind = "complete" THEN -1 ELSE -2)
    ELSE IF p = ManifestPath THEN -3
    ELSE dataFiles[p]

StatSize(p) == ContentOf(p)

_sha256(p) == ContentOf(p)

FileRecord(p) == [path |-> p, size |-> StatSize(p), sha256 |-> _sha256(p)]

(***************************************************************************)
(* json.dumps and json.loads of a manifest: the dict becomes a text, here  *)
(* the tuple of its values in key order, each file record a tuple too.     *)
(***************************************************************************)
json_dumps(m) ==
    <<m.dataset, m.downloaded_at, m.unzip,
      [i \in 1..Len(m.files) |->
          <<m.files[i].path, m.files[i].size, m.files[i].sha256>>]>>

json_loads(t) ==
    [dataset |-> t[1], downloaded_at |-> t[2], unzip |-> t[3],
     files |-> [i \in 1..Len(t[4]) |->
                   [path |-> t[4][i][1], size |-> t[4][i][2], sha256 |-> t[4][i][3]]]]

\* json.loads raises on a text that is no complete JSON document
Readable(f) == f.kind = "complete"

_read_manifest == json_loads(manifestFile.text)

(***************************************************************************)
(* KaggleDatasetIngestor._is_already_downloaded                            *)
(***************************************************************************)
_is_already_downloaded_manifest_only ==
    /\ manifestFile.kind # "absent"
    /\ Readable(manifestFile)

_is_already_downloaded_never == FALSE

_is_already_downloaded ==
    IF manifestFile.kind = "absent" THEN FALSE
    ELSE IF ~Readable(manifestFile) THEN FALSE
    ELSE \E i \in 1..Len(_read_manifest.files) : PathExists(_read_manifest.files[i].path)

(***************************************************************************)
(* KaggleDatasetIngestor._build_manifest                                   *)
(***************************************************************************)
IsListed(p) == PathExists(p) /\ p.name # ManifestName

Rglob == SelectSeq(RglobOrder, IsListed)

_build_manifest_default_slug(c, now) ==
    [dataset |-> "ds1", downloaded_at |-> now, unzip |-> c.unzip,
     files |-> [i \in 1..Len(Rglob) |-> FileRecord(Rglob[i])]]

_build_manifest(c, now) ==
    [dataset |-> c.slug, downloaded_at |-> now, unzip |-> c.unzip,
     files |-> [i \in 1..Len(Rglob) |-> FileRecord(Rglob[i])]]

(***************************************************************************)
(* _write_json_atomic: tmp, the path that write_text writes to and that    *)
(* replace renames to the manifest path.                                   *)
(***************************************************************************)
tmp_is_path == ManifestPath

tmp == TmpPath

(***************************************************************************)
(* KaggleDatasetIngestor._authenticate_and_download, for the call c: the   *)
(* file written for environment credentials, the authentication, the fetch *)
(* and the cleanup of the finally block.  fail names the step that raises, *)
(* "none" if none does; archive is the set of paths the fetched archive    *)
(* holds.                                                                  *)
(***************************************************************************)
Archives == SUBSET DataPaths

Failures(env) ==
    IF env THEN {"none", "write_nofile", "write_partial", "chmod", "auth", "fetch"}
    ELSE {"none", "auth", "fetch"}

Extract(c, archive) ==
    [p \in DataPaths |-> IF p \in archive THEN 1 ELSE dataFiles[p]]

_authenticate_and_download(c, fail, archive) ==
    IF c.env /\ fail \in {"write_nofile", "write_partial"}
    THEN [raised |-> TRUE, fetched |-> 0, files |-> dataFiles,
          cred |-> IF fail = "write_partial" THEN "partial" ELSE credFile]
    ELSE IF c.env /\ fail = "chmod"
    THEN [raised |-> TRUE, fetched |-> 0, files |-> dataFiles, cred |-> "written"]
    ELSE LET cleanup_dir == c.env
             credAfter == IF cleanup_dir THEN "absent" ELSE credFile
         IN  IF fail = "auth"
             THEN [raised |-> TRUE, fetched |-> 0, files |-> dataFiles,
                   cred |-> credAfter]
             ELSE IF fail = "fetch"
             THEN [raised |-> TRUE, fetched |-> 1, files |-> dataFiles,
                   cred |-> credAfter]
             ELSE [raised |-> FALSE, fetched |-> 1, files |-> Extract(c, archive),
                   cred |-> credAfter]

(***************************************************************************)
(* The download calls.  An ingestor is its dataset_slug; its credentials   *)
(* are those of the process environment (KaggleCredentials.from_env) and   *)
(* unzip keeps its default.                                                *)
(***************************************************************************)
Ingestors == [slug : Slugs]

DefaultUnzip == TRUE

NoCall ==
    [slug |-> "", unzip |-> DefaultUnzip, env |-> FALSE, force |-> FALSE,
     outcome |-> "none", skipped |-> FALSE, entered |-> FALSE, fetched |-> 0,
     ret |-> <<>>, m0 |-> NoFile]

StartCall(ing, force) ==
    [NoCall EXCEPT !.slug = ing.slug, !.env = environ, !.force = force,
                   !.m0 = manifestFile]

\* what is remembered of a call that has ended: the manifest file it found is
\* kept for an interrupted call only
Ended(c) == IF c.outcome = "killed" THEN c ELSE [c EXCEPT !.m0 = NoFile]

\* what is remembered of the call before the last: whether the last call repeated
\* it (both returned, identical arguments, force not set, no change to the
\* directory in between) and, if so, what it fetched and returned
NoRepeat == [repeat |-> FALSE, fetched |-> 0, ret |-> <<>>]

Repeats(c) ==
    /\ last.outcome = "returned" /\ c.outcome = "returned"
    /\ c.slug = last.slug /\ c.unzip = last.unzip /\ c.env = last.env
    /\ ~c.force /\ ~last.force
    /\ ~changed

EndCall(c) ==
    /\ last' = Ended(c)
    /\ prev' = IF Repeats(c)
               THEN [repeat |-> TRUE, fetched |-> last.fetched, ret |-> last.ret]
               ELSE NoRepeat
    /\ cur' = NoCall
    /\ pc' = "idle"
    /\ changed' = FALSE

AcqInit ==
    /\ dataFiles = [p \in DataPaths |-> 0]
    /\ manifestFile \in {NoFile, Garbage}
    /\ tmpFile = NoFile
    /\ credFile = "absent"
    /\ environ \in BOOLEAN
    /\ pc = "idle"
    /\ cur = NoCall
    /\ manifest = <<>>
    /\ clock = 0
    /\ calls = 0
    /\ changed = FALSE
    /\ last = NoCall
    /\ prev = NoRepeat

\* download, lines 95-98: the dataset is already present and force is not set
download_skip(ing, force) ==
    /\ pc = "idle"
    /\ calls < MaxCalls
    /\ _is_already_downloaded /\ ~force
    /\ calls' = calls + 1
    /\ EndCall([StartCall(ing, force) EXCEPT !.outcome = "returned",
                    !.skipped = TRUE, !.ret = <<_read_manifest>>])
    /\ UNCHANGED valVars
    /\ UNCHANGED <<dataFiles, manifestFile, tmpFile, credFile, environ, manifest, clock>>

\* download, lines 100-102: _authenticate_and_download returns or raises
download_fetch(ing, force, fail, archive) ==
    /\ pc = "idle"
    /\ calls < MaxCalls
    /\ ~(_is_already_downloaded /\ ~force)
    /\ fail \in Failures(environ)
    /\ calls' = calls + 1
    /\ LET c == [StartCall(ing, force) EXCEPT !.entered = TRUE]
           r == _authenticate_and_download(c, fail, archive)
       IN  /\ credFile' = r.cred
           /\ dataFiles' = r.files
           /\ IF r.raised
              THEN EndCall([c EXCEPT !.outcome = "raised", !.fetched = r.fetched])
              ELSE /\ cur' = [c EXCEPT !.fetched = r.fetched]
                   /\ pc' = "build"
                   /\ UNCHANGED <<last, prev, changed>>
    /\ UNCHANGED valVars
    /\ UNCHANGED <<manifestFile, tmpFile, manifest, clock, environ>>

\* download, line 103; the fetch may have taken the clock to the next second
download_build_manifest ==
    /\ pc = "build"
    /\ clock' \in IF clock < MaxClock THEN {clock, clock + 1} ELSE {clock}
    /\ manifest' = <<_build_manifest(cur, clock')>>
    /\ pc' = "write"
    /\ UNCHANGED valVars
    /\ UNCHANGED <<dataFiles, manifestFile, tmpFile, credFile, environ, cur, calls,
                   changed, last, prev>>

WriteTo(target, f) ==
    IF target = TmpPath
    THEN tmpFile' = f /\ UNCHANGED manifestFile
    ELSE manifestFile' = f /\ UNCHANGED tmpFile

\* _write_json_atomic, line 32: write_text has written part of the text
write_text_begin ==
    /\ pc = "write"
    /\ WriteTo(tmp, [kind |-> "partial", text |-> json_dumps(manifest[1])])
    /\ pc' = "writing"
    /\ UNCHANGED valVars
    /\ UNCHANGED <<dataFiles, credFile, environ, cur, manifest, clock, calls, changed,
                   last, prev>>

\* _write_json_atomic, line 32: write_text has written the whole text
write_text_end ==
    /\ pc = "writing"
    /\ WriteTo(tmp, [kind |-> "complete", text |-> json_dumps(manifest[1])])
    /\ pc' = "replace"
    /\ UNCHANGED valVars
    /\ UNCHANGED <<dataFiles, credFile, environ, cur, manifest, clock, calls, changed,
                   last, prev>>

\* _write_json_atomic, line 33, and the return of download, lines 105-110
replace ==
    /\ pc = "replace"
    /\ IF tmp = TmpPath
       THEN manifestFile' = tmpFile /\ tmpFile' = NoFile
       ELSE UNCHANGED <<manifestFile, tmpFile>>
    /\ EndCall([cur EXCEPT !.outcome = "returned", !.ret = manifest])
    /\ manifest' = <<>>
    /\ UNCHANGED valVars
    /\ UNCHANGED <<dataFiles, credFile, environ, clock, calls>>

\* the process is interrupted between two steps of download
Interrupt ==
    /\ pc \in {"build", "write", "writing", "replace"}
    /\ EndCall([cur EXCEPT !.outcome = "killed"])
    /\ manifest' = <<>>
    /\ UNCHANGED valVars
    /\ UNCHANGED <<dataFiles, manifestFile, tmpFile, credFile, environ, clock, calls>>

\* between two calls, a data file is removed from the output directory
ExternalRemove(p) ==
    /\ pc = "idle"
    /\ dataFiles[p] # 0
    /\ dataFiles' = [dataFiles EXCEPT ![p] = 0]
    /\ changed' = TRUE
    /\ UNCHANGED valVars
    /\ UNCHANGED <<manifestFile, tmpFile, credFile, environ, pc, cur, manifest, clock, calls,
                   last, prev>>

Next ==
    \/ \E ing \in Ingestors, force \in BOOLEAN : download_skip(ing, force)
    \/ \E ing \in Ingestors, force \in BOOLEAN, fail \in Failures(TRUE),
          archive \in Archives : download_fetch(ing, force, fail, archive)
    \/ download_build_manifest
    \/ write_text_begin
    \/ write_text_end
    \/ replace
    \/ Interrupt
    \/ \E p \in DataPaths : ExternalRemove(p)

(***************************************************************************)
(*                              The Validator                              *)
(***************************************************************************)

(***************************************************************************)
(* File names of data/raw: a stem, a sequence of character codes, and an   *)
(* extension.                                                              *)
(***************************************************************************)
FileNames ==
    {[stem |-> <<1, 2>>, ext |-> "csv"], [stem |-> <<2>>, ext |-> "csv"],
     [stem |-> <<1>>, ext |-> "txt"]}

\* the directory listings: every order of every set of names
Listings ==
    {l \in UNION {[1..n -> FileNames] : n \in 0..Cardinality(FileNames)} :
        \A i, j \in DOMAIN l : i # j => l[i] # l[j]}

(***************************************************************************)
(* The data frame read from the CSV file.  The first rows \div 2 rows hold *)
(* scoreA in churn_risk_score and the others scoreB; -1 is the value that  *)
(* _load_and_clean_data replaces by None.                                  *)
(***************************************************************************)
MinRows == 100

MinMean == 1

MaxMean == 4

MinScore == 0

MaxScore == 5

RowCounts == {80, MinRows, MinRows + 1, 150}

ScoreValues == {-1, MinScore, MinMean, MaxMean, MaxScore, MaxScore + 1}

NoFrame ==
    [load |-> "none", rows |-> 0, idsUnique |-> TRUE, othersValid |-> TRUE,
     scoreA |-> MinMean, scoreB |-> MinMean, coerceNull |-> TRUE]

\* the number of rows that hold scoreA, and scoreB
RowsA(df) == df.rows \div 2

RowsB(df) == df.rows - RowsA(df)

\* the values of churn_risk_score after the cleaning, None left out
Scores(df) ==
    {v \in {df.scoreA, df.scoreB} :
        /\ v # -1
        /\ (v = df.scoreA /\ RowsA(df) > 0) \/ (v = df.scoreB /\ RowsB(df) > 0)}

HasNull(df) ==
    \/ df.scoreA = -1 /\ RowsA(df) > 0
    \/ df.scoreB = -1 /\ RowsB(df) > 0

Frames ==
    {df \in [load : {"ok"}, rows : RowCounts, idsUnique : BOOLEAN,
             othersValid : BOOLEAN, scoreA : ScoreValues, scoreB : ScoreValues,
             coerceNull : BOOLEAN] : df.coerceNull \/ HasNull(df)}
    \cup {[NoFrame EXCEPT !.load = e] : e \in {"KeyError", "FileNotFoundError"}}

(***************************************************************************)
(* _find_first_csv_path: glob of *.csv, in the order of the listing        *)
(***************************************************************************)
IsCsv(f) == f.ext = "csv"

Glob(l) == SelectSeq(l, IsCsv)

(***************************************************************************)
(* SCHEMA.validate: the churn_risk_score column (line 44) and the others   *)
(***************************************************************************)
SCHEMA(df) ==
    /\ df.othersValid
    /\ \A v \in Scores(df) : v >= MinScore /\ v <= MaxScore
    /\ HasNull(df) => df.coerceNull

(***************************************************************************)
(* _run_sanity_checks                                                      *)
(***************************************************************************)
RowCountOkInclusive(n) == n >= MinRows

RowCountOk(n) == n > MinRows

ScoreSum(df) ==
    (IF df.scoreA = -1 THEN 0 ELSE df.scoreA * RowsA(df))
    + (IF df.scoreB = -1 THEN 0 ELSE df.scoreB * RowsB(df))

ScoreCount(df) ==
    (IF df.scoreA = -1 THEN 0 ELSE RowsA(df)) + (IF df.scoreB = -1 THEN 0 ELSE RowsB(df))

\* 1.0 <= mean <= 4.0, the mean being sum / count and NaN when count is 0
MeanInBoundsStrict(df) ==
    /\ ScoreCount(df) > 0
    /\ MinMean * ScoreCount(df) < ScoreSum(df)
    /\ ScoreSum(df) < MaxMean * ScoreCount(df)

MeanInBounds(df) ==
    /\ ScoreCount(df) > 0
    /\ MinMean * ScoreCount(df) <= ScoreSum(df)
    /\ ScoreSum(df) <= MaxMean * ScoreCount(df)

\* the assertion that fails first, "none" if none does
FailedAssertion(df) ==
    IF ~RowCountOk(df.rows) THEN "rows"
    ELSE IF ~df.idsUnique THEN "ids"
    ELSE IF ~MeanInBounds(df) THEN "mean"
    ELSE "none"

(***************************************************************************)
(* main: the except clauses in their order, and the classes an exception   *)
(* is an instance of                                                       *)
(***************************************************************************)
HandlersBroadFirst == <<"Exception", "FileNotFoundError", "SchemaErrors", "AssertionError">>

Handlers == <<"FileNotFoundError", "SchemaErrors", "AssertionError", "Exception">>

Classes(cls) ==
    IF cls = "FileNotFoundError" THEN {"FileNotFoundError", "OSError", "Exception"}
    ELSE IF cls = "KeyError" THEN {"KeyError", "LookupError", "Exception"}
    ELSE {cls, "Exception"}

HandlerFor(cls) ==
    Handlers[CHOOSE i \in DOMAIN Handlers :
                /\ Handlers[i] \in Classes(cls)
                /\ \A j \in 1..(i - 1) : Handlers[j] \notin Classes(cls)]

Exc(cls, cites) == <<[cls |-> cls, cites |-> cites]>>

ValIdle ==
    /\ listing = <<>>
    /\ csv = NoFrame
    /\ vpc = "off"
    /\ csvPath = <<>>
    /\ raised = <<>>
    /\ logged = "none"
    /\ exitCode = -1

ValInit ==
    /\ listing \in Listings
    /\ csv \in Frames
    /\ vpc = "find"
    /\ csvPath = <<>>
    /\ raised = <<>>
    /\ logged = "none"
    /\ exitCode = -1

\* main, line 102
_find_first_csv_path ==
    /\ vpc = "find"
    /\ IF Glob(listing) = <<>>
       THEN raised' = Exc("FileNotFoundError", "csv") /\ vpc' = "except"
            /\ UNCHANGED csvPath
       ELSE csvPath' = <<Glob(listing)[1]>> /\ vpc' = "load" /\ UNCHANGED raised
    /\ UNCHANGED acqVars
    /\ UNCHANGED <<listing, csv, logged, exitCode>>

\* main, line 103
_load_and_clean_data ==
    /\ vpc = "load"
    /\ IF csv.load = "ok"
       THEN vpc' = "schema" /\ UNCHANGED raised
       ELSE raised' = Exc(csv.load, "load") /\ vpc' = "except"
    /\ UNCHANGED acqVars
    /\ UNCHANGED <<listing, csv, csvPath, logged, exitCode>>

\* main, line 107
SCHEMA_validate ==
    /\ vpc = "schema"
    /\ IF SCHEMA(csv)
       THEN vpc' = "sanity" /\ UNCHANGED raised
       ELSE raised' = Exc("SchemaErrors", "schema") /\ vpc' = "except"
    /\ UNCHANGED acqVars
    /\ UNCHANGED <<listing, csv, csvPath, logged, exitCode>>

\* main, lines 109-111
_run_sanity_checks ==
    /\ vpc = "sanity"
    /\ IF FailedAssertion(csv) = "none"
       THEN vpc' = "done" /\ exitCode' = 0 /\ UNCHANGED raised
       ELSE raised' = Exc("AssertionError", FailedAssertion(csv)) /\ vpc' = "except"
            /\ UNCHANGED exitCode
    /\ UNCHANGED acqVars
    /\ UNCHANGED <<listing, csv, csvPath, logged>>

\* main, lines 113-126
main_except ==
    /\ vpc = "except"
    /\ logged' = HandlerFor(raised[1].cls)
    /\ exitCode' = 1
    /\ vpc' = "done"
    /\ UNCHANGED acqVars
    /\ UNCHANGED <<listing, csv, csvPath, raised>>

NextValidator ==
    \/ _find_first_csv_path
    \/ _load_and_clean_data
    \/ SCHEMA_validate
    \/ _run_sanity_checks
    \/ main_except

AcqIdle ==
    /\ dataFiles = [p \in DataPaths |-> 0]
    /\ manifestFile = NoFile
    /\ tmpFile = NoFile
    /\ credFile = "absent"
    /\ environ = FALSE
    /\ pc = "off"
    /\ cur = NoCall
    /\ manifest = <<>>
    /\ clock = 0
    /\ calls = 0
    /\ changed = FALSE
    /\ last = NoCall
    /\ prev = NoRepeat

Init == AcqInit /\ ValIdle

Spec == Init /\ [][Next]_vars

InitValidator == ValInit /\ AcqIdle

SpecValidator == InitValidator /\ [][NextValidator]_vars

(***************************************************************************)
(*                        Properties of the Acquirer                       *)
(***************************************************************************)
AllPaths == {RglobOrder[i] : i \in DOMAIN RglobOrder}

ListedPaths(m) == {m.files[i].path : i \in 1..Len(m.files)}

\* a download call has just returned or raised and nothing has happened since
JustEnded == pc = "idle" /\ ~changed /\ last.outcome \in {"returned", "raised"}

\* C1, as claimed: when a download call repeats the one before it (identical
\* arguments, force not set, both returned, no change to the directory in
\* between), the two calls fetch at most once and return the same manifest.
C1_Original ==
    prev.repeat => prev.fetched + last.fetched <= 1 /\ last.ret = prev.ret

\* C1, amended: when a download call repeats the one before it and at least one
\* file listed in the manifest the first call returned is on disk, the second call
\* skips the fetch, the two calls fetch at most once, and the second call returns
\* the manifest the first returned.
C1_Idempotent ==
    (/\ prev.repeat
     /\ JustEnded
     /\ \E p \in ListedPaths(prev.ret[1]) : PathExists(p))
    => /\ last.skipped
       /\ last.fetched = 0
       /\ prev.fetched <= 1
       /\ last.ret = prev.ret

C1_Witness ==
    /\ prev.repeat
    /\ JustEnded
    /\ prev.fetched = 1
    /\ last.skipped
    /\ \E p \in ListedPaths(prev.ret[1]) : PathExists(p)

\* the manifest file holds a readable manifest, a path it lists exists, and force
\* is not set
C2_SkipCondition(force) ==
    /\ manifestFile.kind = "complete"
    /\ \E i \in 1..Len(manifestFile.text[4]) : PathExists(manifestFile.text[4][i][1])
    /\ ~force

\* a step that starts a download call
C2_CallStarts == pc = "idle" /\ calls' = calls + 1

\* the call that a step starts: it has ended with the step, or it runs on
C2_Started == IF pc' = "idle" THEN last' ELSE cur'

\* C2: a download call skips the remote host exactly when the manifest file holds
\* a readable manifest, at least one path it lists exists, and force is not set;
\* it then returns that manifest and changes no file.  In every other case it
\* enters the fetch, and when it returns it has fetched and the manifest file
\* holds the manifest it returns.
C2_SkipExactly ==
    /\ [][C2_CallStarts =>
            /\ C2_Started.skipped <=> C2_SkipCondition(C2_Started.force)
            /\ C2_Started.skipped =>
                  /\ C2_Started.outcome = "returned"
                  /\ C2_Started.fetched = 0 /\ ~C2_Started.entered
                  /\ json_dumps(C2_Started.ret[1]) = manifestFile.text
                  /\ UNCHANGED <<manifestFile, tmpFile, dataFiles, credFile>>
            /\ ~C2_Started.skipped => C2_Started.entered]_vars
    /\ [](last.outcome = "returned" /\ ~last.skipped =>
            /\ last.entered /\ last.fetched = 1
            /\ manifestFile = [kind |-> "complete", text |-> json_dumps(last.ret[1])])

C2_Witness ==
    /\ last.outcome = "returned" /\ last.skipped
    /\ dataFiles[Path("", "a.csv")] = 1
    /\ calls = 2

\* C3: the manifest file never holds a partly written manifest; while a download
\* call runs, and after it was interrupted, the manifest file is what it was when
\* the call began; after a call that fetched and returned it holds a complete
\* manifest.
C3_AtomicManifest ==
    /\ manifestFile.kind # "partial"
    /\ pc # "idle" => manifestFile = cur.m0
    /\ last.outcome = "killed" => manifestFile = last.m0
    /\ last.outcome = "returned" /\ ~last.skipped => manifestFile.kind = "complete"

C3_Witness ==
    /\ last.outcome = "killed"
    /\ tmpFile.kind = "complete"
    /\ manifestFile.kind = "complete"
    /\ tmpFile.text # manifestFile.text

\* C4, as claimed: after a download call that used credentials of the environment
\* and has returned or raised, the scratch credential file does not exist.
C4_NoCredentialResidue ==
    (last.env /\ last.entered /\ last.outcome \in {"returned", "raised"})
    => credFile = "absent"

\* C5, as claimed: after a download call that fetched and returned, the manifest
\* lists each regular file under the output directory once, the manifest file
\* alone left out, and nothing else.
C5_ListsEveryFile ==
    (JustEnded /\ last.outcome = "returned" /\ ~last.skipped)
    => /\ ListedPaths(last.ret[1]) = {p \in AllPaths \ {ManifestPath} : PathExists(p)}
       /\ \A i, j \in 1..Len(last.ret[1].files) :
             last.ret[1].files[i].path = last.ret[1].files[j].path => i = j

\* C10, as claimed: the manifest a download call returns has the dataset field
\* equal to the dataset_slug of the ingestor that made the call.
C10_Original ==
    last.outcome = "returned" => last.ret[1].dataset = last.slug

\* C10, amended: the manifest returned by a download call that fetched has the
\* dataset field equal to the dataset_slug of the ingestor that made the call; a
\* call that skipped the fetch returns the manifest of the manifest file, whatever
\* its dataset field.
C10_DatasetOfFetch ==
    /\ (last.outcome = "returned" /\ ~last.skipped) => last.ret[1].dataset = last.slug
    /\ (last.outcome = "returned" /\ last.skipped)
          => json_dumps(last.ret[1]) = manifestFile.text

C10_Witness ==
    /\ last.outcome = "returned" /\ ~last.skipped
    /\ last.slug = "ds2"
    /\ last.force
    /\ calls = 2
    /\ last.ret[1].dataset = "ds2"

(***************************************************************************)
(*                        Properties of the Validator                      *)
(***************************************************************************)
\* main has ended, having read a CSV file into a data frame
Loaded == vpc = "done" /\ csvPath # <<>> /\ csv.load = "ok"

\* the data frame violates the schema: a column other than churn_risk_score does,
\* or a score lies outside 0..5, or a missing score cannot be coerced to int
SchemaViolated ==
    \/ ~csv.othersValid
    \/ RowsA(csv) > 0 /\ csv.scoreA \notin {-1} \cup (MinScore..MaxScore)
    \/ RowsB(csv) > 0 /\ csv.scoreB \notin {-1} \cup (MinScore..MaxScore)
    \/ HasNull(csv) /\ ~csv.coerceNull

SanityErrorCiting(check) ==
    /\ exitCode = 1
    /\ logged = "AssertionError"
    /\ raised = <<[cls |-> "AssertionError", cites |-> check]>>

\* C6, as claimed: a CSV file of at most 100 rows fails with the sanity error
\* that cites the row count, whether or not it violates the schema.
C6_Original ==
    (Loaded /\ csv.rows <= MinRows) => SanityErrorCiting("rows")

\* C6, amended: a CSV file of at most 100 rows that passes the schema validation
\* fails with the sanity error that cites the row count; one that violates the
\* schema fails with the schema error, the row count never being checked.
C6_RowFloor ==
    (Loaded /\ csv.rows <= MinRows)
    => IF SchemaViolated
       THEN exitCode = 1 /\ logged = "SchemaErrors" /\ raised[1].cls = "SchemaErrors"
       ELSE SanityErrorCiting("rows")

C6_Witness ==
    /\ Loaded
    /\ csv.rows = 80
    /\ ~SchemaViolated
    /\ SanityErrorCiting("rows")

\* main has read 150 rows that pass the schema, with unique identifiers and the
\* constant score c
Constant150(c) ==
    /\ Loaded
    /\ csv.rows = 150
    /\ csv.idsUnique
    /\ csv.scoreA = c /\ csv.scoreB = c
    /\ ~SchemaViolated

\* C7, as claimed: 150 rows that pass the schema, with unique identifiers and the
\* constant score 1, fail with the sanity error that cites the mean of the score.
C7_Original ==
    Constant150(1) => SanityErrorCiting("mean")

\* C7, amended: 150 rows that pass the schema, with unique identifiers and a
\* constant score c, fail with the sanity error that cites the mean of the score
\* when c is outside 1..4 (0 or 5), and pass with exit code 0 when c is in 1..4,
\* the constant 1 included: the bounds 1.0 and 4.0 are inclusive.
C7_MeanBounds ==
    \A c \in MinScore..MaxScore :
        Constant150(c) =>
            IF c >= MinMean /\ c <= MaxMean
            THEN exitCode = 0 /\ logged = "none" /\ raised = <<>>
            ELSE SanityErrorCiting("mean")

C7_Witness ==
    /\ Constant150(1)
    /\ exitCode = 0
    /\ logged = "none"

\* the order of two stems as strings
RECURSIVE LexLess(_, _)
LexLess(s, t) ==
    IF s = <<>> THEN t # <<>>
    ELSE IF t = <<>> THEN FALSE
    ELSE IF Head(s) # Head(t) THEN Head(s) < Head(t)
    ELSE LexLess(Tail(s), Tail(t))

\* C8, as claimed: the file main reads is the first CSV file of the directory in
\* the order of the names, whatever the order of the listing; with no CSV file
\* main fails with the not-found error.
C8_LexFirst ==
    vpc = "done" =>
        IF \E i \in DOMAIN listing : listing[i].ext = "csv"
        THEN /\ csvPath # <<>>
             /\ csvPath[1].ext = "csv"
             /\ \A i \in DOMAIN listing :
                   listing[i].ext = "csv" => ~LexLess(listing[i].stem, csvPath[1].stem)
        ELSE /\ csvPath = <<>>
             /\ exitCode = 1
             /\ logged = "FileNotFoundError"

\* the directory holds a CSV file
C9_Found == \E i \in DOMAIN listing : listing[i].ext = "csv"

\* a sanity check fails: too few rows, a repeated identifier, or a mean of the
\* score that is NaN or outside 1..4
C9_SanityFails ==
    \/ csv.rows <= MinRows
    \/ ~csv.idsUnique
    \/ ScoreCount(csv) = 0
    \/ ScoreSum(csv) < MinMean * ScoreCount(csv)
    \/ ScoreSum(csv) > MaxMean * ScoreCount(csv)

\* the handler that the first failing step of main leads to, "none" if none fails
C9_Expected ==
    IF ~C9_Found \/ csv.load = "FileNotFoundError" THEN "FileNotFoundError"
    ELSE IF csv.load # "ok" THEN "Exception"
    ELSE IF SchemaViolated THEN "SchemaErrors"
    ELSE IF C9_SanityFails THEN "AssertionError"
    ELSE "none"

\* C9: main ends with exit code 0 exactly when a CSV file is found and loaded, the
\* schema is not violated and no sanity check fails, and with exit code 1
\* otherwise; a failure is logged by the handler of its kind: not found, schema,
\* sanity, unexpected.
C9_ExitCodes ==
    vpc = "done" =>
        /\ exitCode \in {0, 1}
        /\ exitCode = 0 <=> C9_Expected = "none"
        /\ logged = C9_Expected

C9_Witness ==
    /\ vpc = "done"
    /\ exitCode = 1
    /\ logged = "Exception"
    /\ csv.load = "KeyError"

====
